---------------------------- MODULE Spec2Model ----------------------------
(***************************************************************************)
(* Model of lxserv/icon_viewer.py (rondreas/icon-viewer): the startup      *)
(* build of the synthetic icon tree (IconViewerPBSynthetic.__init__), the  *)
(* path lookup (dcsyn_Lookup), the child enumeration of an entry           *)
(* (dcsyne_DirCount, dcsyne_DirByIndex), the preset metrics                *)
(* (ptyp_Metrics) and the thumbnail crop (pmet_ThumbnailImage).            *)
(*                                                                         *)
(* Python strings are sequences of characters, so that startswith, split,  *)
(* strip and int() are computed as Python computes them.  A character up   *)
(* to U+00FF is the one-character string holding it; a character above     *)
(* U+00FF is written "U+" followed by its code point in hexadecimal, at    *)
(* least four digits ("U+2000", "U+1D7CE").                                *)
(***************************************************************************)
EXTENDS Integers, Sequences, FiniteSets

(***************************************************************************)
(* Bounds of the model.                                                    *)
(***************************************************************************)
\* number of config files a scan enumerates
MaxFiles == 2
\* largest source image side the host decoder returns
MaxSource == 3
\* largest |index| the host passes to dcsyne_DirByIndex
MaxIndex == 2
\* number of metrics handles constructed before the model stops counting
MaxHandles == 2
\* largest thumbnail side the host asks metrics for
MaxThumb == 1

(***************************************************************************)
(* Python str operations.                                                  *)
(***************************************************************************)
\* ICONVIEWERPRESET_SYNTH = "[" + ICONVIEWERPRESET_NAME + "]"
ICONVIEWERPRESET_SYNTH ==
    <<"[", "I", "c", "o", "n", "V", "i", "e", "w", "e", "r", "P", "B", "]">>

\* the characters str.strip() removes: \t \n \v \f \r, U+001C to U+001F, the
\* space, U+0085, U+00A0 and the Unicode spaces
WhiteSpace ==
    {"\t", "\n", "", "\f", "\r", "", "", "", "", " ", "", " ",
     "U+1680", "U+2000", "U+2001", "U+2002", "U+2003", "U+2004", "U+2005",
     "U+2006", "U+2007", "U+2008", "U+2009", "U+200A", "U+2028", "U+2029",
     "U+202F", "U+205F", "U+3000"}

IsSpace(c) == c \in WhiteSpace

\* str.startswith
StartsWith(s, p) == Len(s) >= Len(p) /\ SubSeq(s, 1, Len(p)) = p

\* str.endswith
EndsWith(s, p) ==
    Len(s) >= Len(p) /\ SubSeq(s, Len(s) - Len(p) + 1, Len(s)) = p

\* c in s
Contains(s, c) == \E i \in 1..Len(s) : s[i] = c

\* s.find(c) + 1: the first position of c in s, 0 when absent
IndexOf(s, c) ==
    IF Contains(s, c)
    THEN CHOOSE i \in 1..Len(s) : s[i] = c /\ \A j \in 1..(i - 1) : s[j] # c
    ELSE 0

\* s.split(c, 1): one element when c is absent, else the text before and after
SplitOnce(s, c) ==
    LET i == IndexOf(s, c)
    IN  IF i = 0 THEN <<s>>
        ELSE <<SubSeq(s, 1, i - 1), SubSeq(s, i + 1, Len(s))>>

\* s.split(c): every piece between separators, empty pieces included
RECURSIVE SplitAll(_, _)
SplitAll(s, c) ==
    LET i == IndexOf(s, c)
    IN  IF i = 0 THEN <<s>>
        ELSE <<SubSeq(s, 1, i - 1)>> \o SplitAll(SubSeq(s, i + 1, Len(s)), c)

\* s.lstrip()
RECURSIVE LStrip(_)
LStrip(s) ==
    IF s # <<>> /\ IsSpace(Head(s)) THEN LStrip(Tail(s)) ELSE s

\* s.rstrip()
RECURSIVE RStrip(_)
RStrip(s) ==
    IF s # <<>> /\ IsSpace(s[Len(s)])
    THEN RStrip(SubSeq(s, 1, Len(s) - 1))
    ELSE s

\* s.strip()
Strip(s) == RStrip(LStrip(s))

(***************************************************************************)
(* int(token), base 10: white space around the number is ignored, then an  *)
(* optional sign and one or more decimal digits of any script, with single *)
(* underscores allowed between digits.  The result is <<n>>; anything else *)
(* raises ValueError, modelled by the empty tuple.                         *)
(***************************************************************************)
\* the characters with a decimal digit value (Unicode category Nd), one row
\* per script, each row from digit zero to digit nine
DigitRuns ==
    << <<"0", "1", "2", "3", "4", "5", "6", "7", "8", "9">>,
       <<"U+0660", "U+0661", "U+0662", "U+0663", "U+0664", "U+0665", "U+0666", "U+0667", "U+0668", "U+0669">>,
       <<"U+06F0", "U+06F1", "U+06F2", "U+06F3", "U+06F4", "U+06F5", "U+06F6", "U+06F7", "U+06F8", "U+06F9">>,
       <<"U+07C0", "U+07C1", "U+07C2", "U+07C3", "U+07C4", "U+07C5", "U+07C6", "U+07C7", "U+07C8", "U+07C9">>,
       <<"U+0966", "U+0967", "U+0968", "U+0969", "U+096A", "U+096B", "U+096C", "U+096D", "U+096E", "U+096F">>,
       <<"U+09E6", "U+09E7", "U+09E8", "U+09E9", "U+09EA", "U+09EB", "U+09EC", "U+09ED", "U+09EE", "U+09EF">>,
       <<"U+0A66", "U+0A67", "U+0A68", "U+0A69", "U+0A6A", "U+0A6B", "U+0A6C", "U+0A6D", "U+0A6E", "U+0A6F">>,
       <<"U+0AE6", "U+0AE7", "U+0AE8", "U+0AE9", "U+0AEA", "U+0AEB", "U+0AEC", "U+0AED", "U+0AEE", "U+0AEF">>,
       <<"U+0B66", "U+0B67", "U+0B68", "U+0B69", "U+0B6A", "U+0B6B", "U+0B6C", "U+0B6D", "U+0B6E", "U+0B6F">>,
       <<"U+0BE6", "U+0BE7", "U+0BE8", "U+0BE9", "U+0BEA", "U+0BEB", "U+0BEC", "U+0BED", "U+0BEE", "U+0BEF">>,
       <<"U+0C66", "U+0C67", "U+0C68", "U+0C69", "U+0C6A", "U+0C6B", "U+0C6C", "U+0C6D", "U+0C6E", "U+0C6F">>,
       <<"U+0CE6", "U+0CE7", "U+0CE8", "U+0CE9", "U+0CEA", "U+0CEB", "U+0CEC", "U+0CED", "U+0CEE", "U+0CEF">>,
       <<"U+0D66", "U+0D67", "U+0D68", "U+0D69", "U+0D6A", "U+0D6B", "U+0D6C", "U+0D6D", "U+0D6E", "U+0D6F">>,
       <<"U+0DE6", "U+0DE7", "U+0DE8", "U+0DE9", "U+0DEA", "U+0DEB", "U+0DEC", "U+0DED", "U+0DEE", "U+0DEF">>,
       <<"U+0E50", "U+0E51", "U+0E52", "U+0E53", "U+0E54", "U+0E55", "U+0E56", "U+0E57", "U+0E58", "U+0E59">>,
       <<"U+0ED0", "U+0ED1", "U+0ED2", "U+0ED3", "U+0ED4", "U+0ED5", "U+0ED6", "U+0ED7", "U+0ED8", "U+0ED9">>,
       <<"U+0F20", "U+0F21", "U+0F22", "U+0F23", "U+0F24", "U+0F25", "U+0F26", "U+0F27", "U+0F28", "U+0F29">>,
       <<"U+1040", "U+1041", "U+1042", "U+1043", "U+1044", "U+1045", "U+1046", "U+1047", "U+1048", "U+1049">>,
       <<"U+1090", "U+1091", "U+1092", "U+1093", "U+1094", "U+1095", "U+1096", "U+1097", "U+1098", "U+1099">>,
       <<"U+17E0", "U+17E1", "U+17E2", "U+17E3", "U+17E4", "U+17E5", "U+17E6", "U+17E7", "U+17E8", "U+17E9">>,
       <<"U+1810", "U+1811", "U+1812", "U+1813", "U+1814", "U+1815", "U+1816", "U+1817", "U+1818", "U+1819">>,
       <<"U+1946", "U+1947", "U+1948", "U+1949", "U+194A", "U+194B", "U+194C", "U+194D", "U+194E", "U+194F">>,
       <<"U+19D0", "U+19D1", "U+19D2", "U+19D3", "U+19D4", "U+19D5", "U+19D6", "U+19D7", "U+19D8", "U+19D9">>,
       <<"U+1A80", "U+1A81", "U+1A82", "U+1A83", "U+1A84", "U+1A85", "U+1A86", "U+1A87", "U+1A88", "U+1A89">>,
       <<"U+1A90", "U+1A91", "U+1A92", "U+1A93", "U+1A94", "U+1A95", "U+1A96", "U+1A97", "U+1A98", "U+1A99">>,
       <<"U+1B50", "U+1B51", "U+1B52", "U+1B53", "U+1B54", "U+1B55", "U+1B56", "U+1B57", "U+1B58", "U+1B59">>,
       <<"U+1BB0", "U+1BB1", "U+1BB2", "U+1BB3", "U+1BB4", "U+1BB5", "U+1BB6", "U+1BB7", "U+1BB8", "U+1BB9">>,
       <<"U+1C40", "U+1C41", "U+1C42", "U+1C43", "U+1C44", "U+1C45", "U+1C46", "U+1C47", "U+1C48", "U+1C49">>,
       <<"U+1C50", "U+1C51", "U+1C52", "U+1C53", "U+1C54", "U+1C55", "U+1C56", "U+1C57", "U+1C58", "U+1C59">>,
       <<"U+A620", "U+A621", "U+A622", "U+A623", "U+A624", "U+A625", "U+A626", "U+A627", "U+A628", "U+A629">>,
       <<"U+A8D0", "U+A8D1", "U+A8D2", "U+A8D3", "U+A8D4", "U+A8D5", "U+A8D6", "U+A8D7", "U+A8D8", "U+A8D9">>,
       <<"U+A900", "U+A901", "U+A902", "U+A903", "U+A904", "U+A905", "U+A906", "U+A907", "U+A908", "U+A909">>,
       <<"U+A9D0", "U+A9D1", "U+A9D2", "U+A9D3", "U+A9D4", "U+A9D5", "U+A9D6", "U+A9D7", "U+A9D8", "U+A9D9">>,
       <<"U+A9F0", "U+A9F1", "U+A9F2", "U+A9F3", "U+A9F4", "U+A9F5", "U+A9F6", "U+A9F7", "U+A9F8", "U+A9F9">>,
       <<"U+AA50", "U+AA51", "U+AA52", "U+AA53", "U+AA54", "U+AA55", "U+AA56", "U+AA57", "U+AA58", "U+AA59">>,
       <<"U+ABF0", "U+ABF1", "U+ABF2", "U+ABF3", "U+ABF4", "U+ABF5", "U+ABF6", "U+ABF7", "U+ABF8", "U+ABF9">>,
       <<"U+FF10", "U+FF11", "U+FF12", "U+FF13", "U+FF14", "U+FF15", "U+FF16", "U+FF17", "U+FF18", "U+FF19">>,
       <<"U+104A0", "U+104A1", "U+104A2", "U+104A3", "U+104A4", "U+104A5", "U+104A6", "U+104A7", "U+104A8", "U+104A9">>,
       <<"U+10D30", "U+10D31", "U+10D32", "U+10D33", "U+10D34", "U+10D35", "U+10D36", "U+10D37", "U+10D38", "U+10D39">>,
       <<"U+11066", "U+11067", "U+11068", "U+11069", "U+1106A", "U+1106B", "U+1106C", "U+1106D", "U+1106E", "U+1106F">>,
       <<"U+110F0", "U+110F1", "U+110F2", "U+110F3", "U+110F4", "U+110F5", "U+110F6", "U+110F7", "U+110F8", "U+110F9">>,
       <<"U+11136", "U+11137", "U+11138", "U+11139", "U+1113A", "U+1113B", "U+1113C", "U+1113D", "U+1113E", "U+1113F">>,
       <<"U+111D0", "U+111D1", "U+111D2", "U+111D3", "U+111D4", "U+111D5", "U+111D6", "U+111D7", "U+111D8", "U+111D9">>,
       <<"U+112F0", "U+112F1", "U+112F2", "U+112F3", "U+112F4", "U+112F5", "U+112F6", "U+112F7", "U+112F8", "U+112F9">>,
       <<"U+11450", "U+11451", "U+11452", "U+11453", "U+11454", "U+11455", "U+11456", "U+11457", "U+11458", "U+11459">>,
       <<"U+114D0", "U+114D1", "U+114D2", "U+114D3", "U+114D4", "U+114D5", "U+114D6", "U+114D7", "U+114D8", "U+114D9">>,
       <<"U+11650", "U+11651", "U+11652", "U+11653", "U+11654", "U+11655", "U+11656", "U+11657", "U+11658", "U+11659">>,
       <<"U+116C0", "U+116C1", "U+116C2", "U+116C3", "U+116C4", "U+116C5", "U+116C6", "U+116C7", "U+116C8", "U+116C9">>,
       <<"U+11730", "U+11731", "U+11732", "U+11733", "U+11734", "U+11735", "U+11736", "U+11737", "U+11738", "U+11739">>,
       <<"U+118E0", "U+118E1", "U+118E2", "U+118E3", "U+118E4", "U+118E5", "U+118E6", "U+118E7", "U+118E8", "U+118E9">>,
       <<"U+11950", "U+11951", "U+11952", "U+11953", "U+11954", "U+11955", "U+11956", "U+11957", "U+11958", "U+11959">>,
       <<"U+11C50", "U+11C51", "U+11C52", "U+11C53", "U+11C54", "U+11C55", "U+11C56", "U+11C57", "U+11C58", "U+11C59">>,
       <<"U+11D50", "U+11D51", "U+11D52", "U+11D53", "U+11D54", "U+11D55", "U+11D56", "U+11D57", "U+11D58", "U+11D59">>,
       <<"U+11DA0", "U+11DA1", "U+11DA2", "U+11DA3", "U+11DA4", "U+11DA5", "U+11DA6", "U+11DA7", "U+11DA8", "U+11DA9">>,
       <<"U+16A60", "U+16A61", "U+16A62", "U+16A63", "U+16A64", "U+16A65", "U+16A66", "U+16A67", "U+16A68", "U+16A69">>,
       <<"U+16AC0", "U+16AC1", "U+16AC2", "U+16AC3", "U+16AC4", "U+16AC5", "U+16AC6", "U+16AC7", "U+16AC8", "U+16AC9">>,
       <<"U+16B50", "U+16B51", "U+16B52", "U+16B53", "U+16B54", "U+16B55", "U+16B56", "U+16B57", "U+16B58", "U+16B59">>,
       <<"U+1D7CE", "U+1D7CF", "U+1D7D0", "U+1D7D1", "U+1D7D2", "U+1D7D3", "U+1D7D4", "U+1D7D5", "U+1D7D6", "U+1D7D7">>,
       <<"U+1D7D8", "U+1D7D9", "U+1D7DA", "U+1D7DB", "U+1D7DC", "U+1D7DD", "U+1D7DE", "U+1D7DF", "U+1D7E0", "U+1D7E1">>,
       <<"U+1D7E2", "U+1D7E3", "U+1D7E4", "U+1D7E5", "U+1D7E6", "U+1D7E7", "U+1D7E8", "U+1D7E9", "U+1D7EA", "U+1D7EB">>,
       <<"U+1D7EC", "U+1D7ED", "U+1D7EE", "U+1D7EF", "U+1D7F0", "U+1D7F1", "U+1D7F2", "U+1D7F3", "U+1D7F4", "U+1D7F5">>,
       <<"U+1D7F6", "U+1D7F7", "U+1D7F8", "U+1D7F9", "U+1D7FA", "U+1D7FB", "U+1D7FC", "U+1D7FD", "U+1D7FE", "U+1D7FF">>,
       <<"U+1E140", "U+1E141", "U+1E142", "U+1E143", "U+1E144", "U+1E145", "U+1E146", "U+1E147", "U+1E148", "U+1E149">>,
       <<"U+1E2F0", "U+1E2F1", "U+1E2F2", "U+1E2F3", "U+1E2F4", "U+1E2F5", "U+1E2F6", "U+1E2F7", "U+1E2F8", "U+1E2F9">>,
       <<"U+1E950", "U+1E951", "U+1E952", "U+1E953", "U+1E954", "U+1E955", "U+1E956", "U+1E957", "U+1E958", "U+1E959">>,
       <<"U+1FBF0", "U+1FBF1", "U+1FBF2", "U+1FBF3", "U+1FBF4", "U+1FBF5", "U+1FBF6", "U+1FBF7", "U+1FBF8", "U+1FBF9">> >>

IsDigit(c) == \E r \in 1..Len(DigitRuns) : \E i \in 1..10 : DigitRuns[r][i] = c

DigitValue(c) ==
    LET r == CHOOSE k \in 1..Len(DigitRuns) : \E i \in 1..10 : DigitRuns[k][i] = c
    IN  (CHOOSE i \in 1..10 : DigitRuns[r][i] = c) - 1

\* the white space int() ignores around the number: that of str.strip()
\* without U+001C to U+001F
IsIntSpace(c) == IsSpace(c) /\ c \notin {"", "", "", ""}

RECURSIVE IntLStrip(_)
IntLStrip(s) ==
    IF s # <<>> /\ IsIntSpace(Head(s)) THEN IntLStrip(Tail(s)) ELSE s

RECURSIVE IntRStrip(_)
IntRStrip(s) ==
    IF s # <<>> /\ IsIntSpace(s[Len(s)])
    THEN IntRStrip(SubSeq(s, 1, Len(s) - 1))
    ELSE s

\* the digits of s, its underscores left out
RECURSIVE DigitsOf(_)
DigitsOf(s) ==
    IF s = <<>> THEN <<>>
    ELSE IF Head(s) = "_" THEN DigitsOf(Tail(s))
    ELSE <<Head(s)>> \o DigitsOf(Tail(s))

\* the value of a run of digits
RECURSIVE DigitsValue(_)
DigitsValue(s) ==
    IF s = <<>> THEN 0
    ELSE 10 * DigitsValue(SubSeq(s, 1, Len(s) - 1)) + DigitValue(s[Len(s)])

\* digits with single underscores between them, and no more digits than
\* int() converts (sys.int_info.default_max_str_digits, 4300)
AllDigits(s) ==
    /\ s # <<>>
    /\ \A i \in 1..Len(s) : IsDigit(s[i]) \/ s[i] = "_"
    /\ s[1] # "_" /\ s[Len(s)] # "_"
    /\ \A i \in 1..(Len(s) - 1) : ~(s[i] = "_" /\ s[i + 1] = "_")
    /\ Len(DigitsOf(s)) <= 4300

ParseInt(token) ==
    LET t == IntRStrip(IntLStrip(token))
    IN  IF t = <<>> THEN <<>>
        ELSE IF Head(t) = "-"
             THEN IF AllDigits(Tail(t))
                  THEN <<0 - DigitsValue(DigitsOf(Tail(t)))>> ELSE <<>>
        ELSE IF Head(t) = "+"
             THEN IF AllDigits(Tail(t))
                  THEN <<DigitsValue(DigitsOf(Tail(t)))>> ELSE <<>>
        ELSE IF AllDigits(t) THEN <<DigitsValue(DigitsOf(t))>> ELSE <<>>

\* [x for x in seq if x]
RECURSIVE NonEmpty(_)
NonEmpty(seq) ==
    IF seq = <<>> THEN <<>>
    ELSE IF Head(seq) = <<>> THEN NonEmpty(Tail(seq))
    ELSE <<Head(seq)>> \o NonEmpty(Tail(seq))

\* x, y, w, h = [int(x) for x in text.strip().split(' ') if x]: the tuple
\* <<x, y, w, h>>, or the empty tuple when int() or the unpacking raises
\* ValueError
FourInts(text) ==
    LET tokens == NonEmpty(SplitAll(Strip(text), " "))
        values == [i \in 1..Len(tokens) |-> ParseInt(tokens[i])]
    IN  IF Len(tokens) = 4 /\ \A i \in 1..4 : values[i] # <<>>
        THEN [i \in 1..4 |-> values[i][1]]
        ELSE <<>>

(***************************************************************************)
(* Optional values and the records ElementTree hands to the build.         *)
(***************************************************************************)
\* Python None where a str is expected
None == [some |-> FALSE, s |-> <<>>]

\* a str value
Some(s) == [some |-> TRUE, s |-> s]

\* icon.find(...) returning None: the child is absent
NoElement == [found |-> FALSE, text |-> None]

\* a child element with text content
Element(s) == [found |-> TRUE, text |-> Some(s)]

\* a child element without text content (element.text is None)
EmptyElement == [found |-> TRUE, text |-> None]

\* <hash type="Image" key=...>text</hash>
ImageRecord(key, text) == [key |-> key, text |-> text]

\* <hash type="Icon" key=...> with its Source, Location and Grid children
IconRecord(key, source, location, grid) ==
    [key |-> key, source |-> source, location |-> location, grid |-> grid]

\* one entry of os.listdir(import_path): wellFormed is whether
\* ElementTree.parse accepts the file, images and icons are what the two
\* findall calls return, in document order
ConfigFile(dir, name, wellFormed, images, icons) ==
    [dir |-> dir, name |-> name, wellFormed |-> wellFormed,
     images |-> images, icons |-> icons]

(***************************************************************************)
(* The host and the file system the build reads.                           *)
(***************************************************************************)
\* the import paths, in ImportPathByIndex order
ImportPaths == << <<"/", "1">>, <<"/", "2">> >>

\* the files os.path.isfile accepts
ExistingFiles ==
    { <<"/", "p">>, <<"/", "q">>, <<"/", "2", "/", "s">>, <<"/", "r", "/", "t">> }

\* file_service.ToLocalAlias: the host rewrites the alias "@" to the
\* directory /r and leaves every other path as it is
ToLocalAlias(path) ==
    IF StartsWith(path, <<"@">>) THEN <<"/", "r", "/">> \o Tail(path) ELSE path

\* os.path.isabs (POSIX)
IsAbs(path) == StartsWith(path, <<"/">>)

\* os.path.join(a, b) (POSIX)
Join(a, b) ==
    IF IsAbs(b) THEN b
    ELSE IF a = <<>> \/ EndsWith(a, <<"/">>) THEN a \o b
    ELSE a \o <<"/">> \o b

\* os.path.isfile
IsFile(path) == path \in ExistingFiles

\* c.lower() == l, for l one of the characters of ".cfg": str.lower() maps
\* no other character to a string that holds ".", "c", "f" or "g"
LowersTo(c, l) ==
    \/ c = l
    \/ l = "c" /\ c = "C"
    \/ l = "f" /\ c = "F"
    \/ l = "g" /\ c = "G"

\* filename.lower().endswith(".cfg"): str.lower() turns every character into
\* one or more characters, so the lowered name ends in ".cfg" exactly when
\* the last four characters of the name lower to ".", "c", "f", "g"
IsConfigName(filename) ==
    LET n == Len(filename)
    IN  /\ n >= 4
        /\ LowersTo(filename[n - 3], ".")
        /\ LowersTo(filename[n - 2], "c")
        /\ LowersTo(filename[n - 1], "f")
        /\ LowersTo(filename[n], "g")

(***************************************************************************)
(* The config files a scan can meet.  Texts are written as the files       *)
(* carry them, whitespace included.                                        *)
(***************************************************************************)
Dir1 == ImportPaths[1]
Dir2 == ImportPaths[2]

KeyM == <<"m">>
KeyN == <<"n">>

\* "1 2 16 16"
GridText == <<"1", " ", "2", " ", "1", "6", " ", "1", "6">>

\* one Image and one Icon with a Location: the plain case
FileA ==
    ConfigFile(Dir1, <<"a", ".", "c", "f", "g">>, TRUE,
        << ImageRecord(Some(KeyM), Some(<<" ", "/", "p", "\n">>)) >>,
        << IconRecord(Some(<<"a">>), Element(KeyM),
                      Element(<<"0", " ", "0", " ", "2", " ", "2">>), NoElement) >>)

\* the Image key declared again, the Icon key declared again with a Grid,
\* and an Icon with both a Location and a Grid, its Location "1 1 2 2"
\* written with U+00A0, an underscore and an Arabic-Indic digit
FileB ==
    ConfigFile(Dir1, <<"B", ".", "C", "F", "G">>, TRUE,
        << ImageRecord(Some(KeyM), Some(<<"/", "q">>)) >>,
        << IconRecord(Some(<<"a">>), Element(KeyM), NoElement, Element(GridText)),
           IconRecord(Some(<<"b">>), Element(<<" ", "m", " ">>),
                      Element(<<" ", "1", " ", " ", "1", " ", "0", "_", "2", " ",
                                "U+0662", "\t">>),
                      Element(<<"1", " ", "1", " ", "1", " ", "1">>)) >>)

\* the Image key declared with a path that names no file, and an Icon whose
\* key holds the path separator
FileC ==
    ConfigFile(Dir1, <<"c", ".", "c", "f", "g">>, TRUE,
        << ImageRecord(Some(KeyM), Some(<<"/", "x">>)) >>,
        << IconRecord(Some(<<"a", "/", "b">>), Element(KeyM),
                      Element(<<"0", " ", "1", " ", "1", " ", "2">>), NoElement) >>)

\* a relative Image path, an aliased Image path, a negative x
FileD ==
    ConfigFile(Dir2, <<"d", ".", "c", "f", "g">>, TRUE,
        << ImageRecord(Some(KeyN), Some(<<"s">>)),
           ImageRecord(Some(KeyM), Some(<<"@", "t">>)) >>,
        << IconRecord(Some(<<"c">>), Element(KeyN),
                      Element(<<"-", "1", " ", "0", " ", "2", " ", "1">>), NoElement) >>)

\* Icons the build drops (no key, no Location and no Grid, unknown Source)
\* and an Icon with a negative width
FileE ==
    ConfigFile(Dir2, <<"e", ".", "c", "f", "g">>, TRUE,
        << >>,
        << IconRecord(None, Element(KeyM),
                      Element(<<"0", " ", "0", " ", "1", " ", "1">>), NoElement),
           IconRecord(Some(<<"d">>), Element(KeyM), NoElement, NoElement),
           IconRecord(Some(<<"e">>), Element(<<"z">>),
                      Element(<<"0", " ", "0", " ", "1", " ", "1">>), NoElement),
           IconRecord(Some(<<"f">>), Element(KeyM),
                      Element(<<"0", " ", "0", " ", "-", "1", " ", "1">>), NoElement) >>)

\* a file ElementTree.parse rejects
FileF == ConfigFile(Dir2, <<"f", ".", "c", "f", "g">>, FALSE, << >>, << >>)

\* a file that is no config
FileG ==
    ConfigFile(Dir2, <<"g", ".", "t", "x", "t">>, TRUE,
        << ImageRecord(Some(KeyM), Some(<<"/", "q">>)) >>, << >>)

\* an Icon without a Source child
FileH ==
    ConfigFile(Dir2, <<"h", ".", "c", "f", "g">>, TRUE,
        << >>,
        << IconRecord(Some(<<"h">>), NoElement,
                      Element(<<"0", " ", "0", " ", "1", " ", "1">>), NoElement) >>)

\* an Icon whose Location text is not four integers
FileI ==
    ConfigFile(Dir2, <<"i", ".", "c", "f", "g">>, TRUE,
        << >>,
        << IconRecord(Some(<<"i">>), Element(KeyM),
                      Element(<<"1", " ", "2", " ", "x">>), NoElement) >>)

\* an Image without text
FileJ ==
    ConfigFile(Dir2, <<"j", ".", "c", "f", "g">>, TRUE,
        << ImageRecord(Some(KeyM), None) >>, << >>)

\* an Icon whose Grid has no text
FileK ==
    ConfigFile(Dir2, <<"k", ".", "c", "f", "g">>, TRUE,
        << >>,
        << IconRecord(Some(<<"k">>), Element(KeyM), NoElement, EmptyElement) >>)

ConfigFiles ==
    {FileA, FileB, FileC, FileD, FileE, FileF, FileG, FileH, FileI, FileJ, FileK}

\* the position of a directory in ImportPaths
DirIndex(dir) == CHOOSE i \in 1..Len(ImportPaths) : ImportPaths[i] = dir

\* the listings the two nested loops can enumerate: distinct files, those of
\* an earlier import path first, in any os.listdir order within a directory
RECURSIVE Listings(_)
Listings(n) ==
    IF n = 0 THEN { << >> }
    ELSE LET shorter == Listings(n - 1)
         IN  shorter \cup
             { Append(l, f) : l \in {k \in shorter : Len(k) = n - 1}, f \in ConfigFiles }

ValidListing(l) ==
    /\ \A i, j \in 1..Len(l) : i < j =>
          /\ l[i] # l[j]
          /\ DirIndex(l[i].dir) <= DirIndex(l[j].dir)

(***************************************************************************)
(* The state.                                                              *)
(***************************************************************************)
VARIABLES
    files,      \* the config files the scan enumerates, in order
    pc,         \* "scan", "index", "done", or "raised" (__init__ left by an exception)
    fileIdx,    \* the file the scan is at
    stage,      \* "open", "images" or "icons": where the scan is in that file
    recIdx,     \* the record the scan is at
    images,     \* the dict images: Image key -> image path
    icons,      \* the set icons of (key, source text, bounding box)
    todo,       \* the icons the second loop has not visited yet
    root,       \* self.root, the tree
    error,      \* the exception that left __init__, "" when none
    handles,    \* the number of IconViewerPresetMetrics objects constructed
    result      \* the last request of the host and what it returned

vars == <<files, pc, fileIdx, stage, recIdx, images, icons, todo, root, error,
          handles, result>>

build == <<pc, fileIdx, stage, recIdx, images, icons, todo, root, error>>

(***************************************************************************)
(* IconViewerPBSyntheticEntry                                              *)
(***************************************************************************)
\* IconViewerPBSyntheticEntry.__init__ (modtime, the wall-clock time of the
\* construction, is left out)
SyntheticEntry(path, name, is_file, size, resource) ==
    [path |-> path, name |-> name, is_file |-> is_file,
     x |-> size[1], y |-> size[2], width |-> size[3], height |-> size[4],
     resource |-> resource, tooltip |-> resource,
     files |-> << >>, dirs |-> << >>]

\* self.root = IconViewerPBSyntheticEntry(ICONVIEWERPRESET_SYNTH, "", False, ...)
RootEntry == SyntheticEntry(ICONVIEWERPRESET_SYNTH, << >>, FALSE, <<0, 0, 0, 0>>, << >>)

(***************************************************************************)
(* IconViewerPBSynthetic.__init__: the scan                                *)
(***************************************************************************)
\* the path an Image record is registered under
ImagePath(dir, text) ==
    LET local == ToLocalAlias(Strip(text))
    IN  IF IsAbs(local) THEN local ELSE Join(dir, local)

\* a scan that keeps the first path declared for a key
PutImageKeepFirst(map, key, path) ==
    IF key \in DOMAIN map THEN map
    ELSE [k \in DOMAIN map \cup {key} |-> IF k = key THEN path ELSE map[k]]

\* images[key] = image_path
PutImage(map, key, path) ==
    [k \in DOMAIN map \cup {key} |-> IF k = key THEN path ELSE map[k]]

\* a scan that prefers the Grid of an Icon that has both children
BoundingBoxGridFirst(icon) ==
    IF ~icon.grid.found
    THEN FourInts(icon.location.text.s)
    ELSE LET g == IF icon.grid.text.some THEN FourInts(icon.grid.text.s) ELSE << >>
         IN  IF g = << >> THEN << >>
             ELSE <<g[1] * g[3], g[2] * g[4], g[3], g[4]>>

\* the bounding box of an Icon with a Location or a Grid child whose text is
\* present: <<x, y, w, h>>, or the empty tuple when the text raises ValueError
BoundingBox(icon) ==
    IF icon.location.found
    THEN FourInts(icon.location.text.s)
    ELSE LET g == FourInts(icon.grid.text.s)
         IN  IF g = << >> THEN << >>
             ELSE <<g[1] * g[3], g[2] * g[4], g[3], g[4]>>

\* what the body of the loop over _icons does with one Icon:
\* "skip" (continue), "add" (icons.add) or "raise" (an exception the
\* try statement does not catch)
IconStep(icon) ==
    LET key == IF icon.key.some THEN icon.key.s ELSE << >>
        used == IF icon.location.found THEN icon.location ELSE icon.grid
    IN  IF key = << >>
        THEN [kind |-> "skip", error |-> "", icon |-> << >>]
        ELSE IF ~icon.location.found /\ ~icon.grid.found
        THEN [kind |-> "skip", error |-> "", icon |-> << >>]
        ELSE IF ~used.text.some
        THEN [kind |-> "raise", error |-> "AttributeError", icon |-> << >>]
        ELSE IF BoundingBox(icon) = << >>
        THEN [kind |-> "raise", error |-> "ValueError", icon |-> << >>]
        ELSE IF ~icon.source.found \/ ~icon.source.text.some
        THEN [kind |-> "raise", error |-> "AttributeError", icon |-> << >>]
        ELSE [kind |-> "add", error |-> "",
              icon |-> <<key, Strip(icon.source.text.s), BoundingBox(icon)>>]

AtFile == pc = "scan" /\ fileIdx <= Len(files)

\* line 156: a file name that does not end in .cfg
SkipFile ==
    /\ AtFile /\ stage = "open"
    /\ ~IsConfigName(files[fileIdx].name)
    /\ fileIdx' = fileIdx + 1
    /\ UNCHANGED <<files, pc, stage, recIdx, images, icons, todo, root, error,
                   handles, result>>

\* lines 162, 200-201: ElementTree.parse raises ParseError, which is caught
ParseError ==
    /\ AtFile /\ stage = "open"
    /\ IsConfigName(files[fileIdx].name)
    /\ ~files[fileIdx].wellFormed
    /\ fileIdx' = fileIdx + 1
    /\ UNCHANGED <<files, pc, stage, recIdx, images, icons, todo, root, error,
                   handles, result>>

\* lines 162-163: the file parses; the Image records are found
ParseFile ==
    /\ AtFile /\ stage = "open"
    /\ IsConfigName(files[fileIdx].name)
    /\ files[fileIdx].wellFormed
    /\ stage' = "images"
    /\ recIdx' = 1
    /\ UNCHANGED <<files, pc, fileIdx, images, icons, todo, root, error,
                   handles, result>>

\* lines 164-169: one Image record
ScanImage ==
    /\ AtFile /\ stage = "images"
    /\ recIdx <= Len(files[fileIdx].images)
    /\ LET image == files[fileIdx].images[recIdx]
       IN  IF ~image.text.some
           THEN /\ pc' = "raised"
                /\ error' = "AttributeError"
                /\ UNCHANGED <<recIdx, images>>
           ELSE LET image_path == ImagePath(files[fileIdx].dir, image.text.s)
                IN  /\ images' = IF IsFile(image_path)
                                 THEN PutImage(images, image.key, image_path)
                                 ELSE images
                    /\ recIdx' = recIdx + 1
                    /\ UNCHANGED <<pc, error>>
    /\ UNCHANGED <<files, fileIdx, stage, icons, todo, root, handles, result>>

\* line 171: the Image records are done; the Icon records are found
FindIcons ==
    /\ AtFile /\ stage = "images"
    /\ recIdx > Len(files[fileIdx].images)
    /\ stage' = "icons"
    /\ recIdx' = 1
    /\ UNCHANGED <<files, pc, fileIdx, images, icons, todo, root, error,
                   handles, result>>

\* lines 172-198: one Icon record
ScanIcon ==
    /\ AtFile /\ stage = "icons"
    /\ recIdx <= Len(files[fileIdx].icons)
    /\ LET step == IconStep(files[fileIdx].icons[recIdx])
       IN  IF step.kind = "raise"
           THEN /\ pc' = "raised"
                /\ error' = step.error
                /\ UNCHANGED <<recIdx, icons>>
           ELSE /\ icons' = IF step.kind = "add" THEN icons \cup {step.icon} ELSE icons
                /\ recIdx' = recIdx + 1
                /\ UNCHANGED <<pc, error>>
    /\ UNCHANGED <<files, fileIdx, stage, images, todo, root, handles, result>>

\* line 155: the Icon records are done; the next file
EndFile ==
    /\ AtFile /\ stage = "icons"
    /\ recIdx > Len(files[fileIdx].icons)
    /\ fileIdx' = fileIdx + 1
    /\ stage' = "open"
    /\ UNCHANGED <<files, pc, recIdx, images, icons, todo, root, error,
                   handles, result>>

\* lines 154, 203: every file of every import path is done
EndScan ==
    /\ pc = "scan" /\ fileIdx > Len(files)
    /\ pc' = "index"
    /\ todo' = icons
    /\ UNCHANGED <<files, fileIdx, stage, recIdx, images, icons, root, error,
                   handles, result>>

(***************************************************************************)
(* IconViewerPBSynthetic.__init__: the tree                                *)
(***************************************************************************)
\* images.get(resource, '')
ImageOf(map, resource) ==
    IF Some(resource) \in DOMAIN map THEN map[Some(resource)] ELSE << >>

\* lines 208-214: the entry of one icon
IconEntry(key, image_path, size) ==
    SyntheticEntry(ICONVIEWERPRESET_SYNTH \o <<":">> \o key, key, TRUE, size, image_path)

\* a second loop without the "if not image_path: continue" of lines 205-206
IndexIconKeepsUnresolved ==
    /\ pc = "index"
    /\ \E icon \in todo :
          /\ todo' = todo \ {icon}
          /\ root' = [root EXCEPT !.files =
                         Append(@, IconEntry(icon[1], ImageOf(images, icon[2]), icon[3]))]
    /\ UNCHANGED <<files, pc, fileIdx, stage, recIdx, images, icons, error,
                   handles, result>>

\* lines 203-216: one pass of the loop over the set icons, which Python
\* iterates in an order the program does not control
IndexIcon ==
    /\ pc = "index"
    /\ \E icon \in todo :
          LET image_path == ImageOf(images, icon[2])
          IN  /\ todo' = todo \ {icon}
              /\ root' = IF image_path = << >>
                         THEN root
                         ELSE [root EXCEPT !.files =
                                  Append(@, IconEntry(icon[1], image_path, icon[3]))]
    /\ UNCHANGED <<files, pc, fileIdx, stage, recIdx, images, icons, error,
                   handles, result>>

\* line 216: the loop is done and __init__ returns
EndBuild ==
    /\ pc = "index" /\ todo = {}
    /\ pc' = "done"
    /\ UNCHANGED <<files, fileIdx, stage, recIdx, images, icons, todo, root, error,
                   handles, result>>

(***************************************************************************)
(* References to entries: the list of child positions that leads from the  *)
(* root to the entry (Python object identity, which two entries with equal *)
(* fields do not share).                                                   *)
(***************************************************************************)
FileRef(i) == <<"files", i>>
DirRef(i) == <<"dirs", i>>

RECURSIVE Deref(_, _)
Deref(entry, ref) ==
    IF ref = << >> THEN entry
    ELSE IF Head(ref)[1] = "files"
         THEN Deref(entry.files[Head(ref)[2]], Tail(ref))
         ELSE Deref(entry.dirs[Head(ref)[2]], Tail(ref))

\* the root and its children: every entry __init__ builds
EntryRefs(tree) ==
    { << >> } \cup { <<FileRef(i)>> : i \in 1..Len(tree.files) }
              \cup { <<DirRef(i)>> : i \in 1..Len(tree.dirs) }

(***************************************************************************)
(* IconViewerPBSynthetic.dcsyn_Lookup                                      *)
(***************************************************************************)
Returned(ref) == [kind |-> "entry", ref |-> ref, code |-> ""]
Thrown(code) == [kind |-> "throw", ref |-> << >>, code |-> code]
Raised(exception) == [kind |-> "raise", ref |-> << >>, code |-> exception]

\* for x in list: if name == x.name: current = x -- the loop has no break,
\* so the position it leaves in current is the last one that matches (0: none)
LastMatch(list, name) ==
    IF \E i \in 1..Len(list) : list[i].name = name
    THEN CHOOSE i \in 1..Len(list) :
            /\ list[i].name = name
            /\ \A j \in (i + 1)..Len(list) : list[j].name # name
    ELSE 0

\* lines 234-243 and 248-257: the two loops for one segment.  The first
\* loop runs over the files of the entry it starts at; the second over the
\* dirs of whatever current is by then.
MatchSegment(tree, current, part) ==
    LET f == LastMatch(Deref(tree, current).files, part)
        afterFiles == IF f = 0 THEN current ELSE Append(current, FileRef(f))
        d == LastMatch(Deref(tree, afterFiles).dirs, part)
        afterDirs == IF d = 0 THEN afterFiles ELSE Append(afterFiles, DirRef(d))
    IN  [found |-> f # 0 \/ d # 0, current |-> afterDirs]

\* lines 233-246: the walk over relative_path.split('/')
RECURSIVE Walk(_, _, _)
Walk(tree, current, parts) ==
    IF parts = << >> THEN Returned(current)
    ELSE LET m == MatchSegment(tree, current, Head(parts))
         IN  IF m.found THEN Walk(tree, m.current, Tail(parts))
             ELSE Thrown("e_NOTAVAILABLE")

dcsyn_Lookup(tree, path) ==
    IF ~StartsWith(path, ICONVIEWERPRESET_SYNTH)
    THEN Thrown("e_NOTAVAILABLE")
    ELSE IF path \in {ICONVIEWERPRESET_SYNTH, ICONVIEWERPRESET_SYNTH \o <<":">>}
    THEN Returned(<< >>)
    ELSE LET pieces == SplitOnce(path, ":")
         IN  IF Len(pieces) # 2
             THEN Raised("ValueError")
             ELSE IF Contains(pieces[2], "/")
                  THEN Walk(tree, << >>, SplitAll(pieces[2], "/"))
                  ELSE Walk(tree, << >>, <<pieces[2]>>)

(***************************************************************************)
(* IconViewerPBSyntheticEntry.dcsyne_DirCount, dcsyne_DirByIndex           *)
(***************************************************************************)
\* list_mode as the set of its bits: vDCELIST_DIRS, vDCELIST_FILES
ListModes == SUBSET {"DIRS", "FILES"}

dcsyne_DirCount(entry, list_mode) ==
    (IF "FILES" \in list_mode THEN Len(entry.files) ELSE 0)
    + (IF "DIRS" \in list_mode THEN Len(entry.dirs) ELSE 0)

\* list[index] of Python: the position (from 1) it reads, 0 for IndexError
PyIndex(n, index) ==
    IF 0 <= index /\ index < n THEN index + 1
    ELSE IF 0 - n <= index /\ index < 0 THEN n + index + 1
    ELSE 0

dcsyne_DirByIndex(ref, entry, list_mode, index) ==
    IF "DIRS" \in list_mode /\ index < Len(entry.dirs)
    THEN LET i == PyIndex(Len(entry.dirs), index)
         IN  IF i = 0 THEN Raised("IndexError")
             ELSE Returned(Append(ref, DirRef(i)))
    ELSE IF "FILES" \in list_mode
    THEN LET i == PyIndex(Len(entry.files), index - Len(entry.dirs))
         IN  IF i = 0 THEN Raised("IndexError")
             ELSE Returned(Append(ref, FileRef(i)))
    ELSE Thrown("e_FAILED")

(***************************************************************************)
(* IconViewerPresetType.ptyp_Metrics, IconViewerPresetMetrics.__init__     *)
(***************************************************************************)
\* the null previous_metrics
NullHandle == 0

\* str(n), in the digits "0" to "9"
RECURSIVE NatStr(_)
NatStr(n) ==
    IF n < 10 THEN <<DigitRuns[1][n + 1]>>
    ELSE NatStr(n \div 10) \o <<DigitRuns[1][(n % 10) + 1]>>

IntStr(n) == IF n < 0 THEN <<"-">> \o NatStr(0 - n) ELSE NatStr(n)

\* f"({x}, {y}, {width}, {height})"
Caption(entry) ==
    <<"(">> \o IntStr(entry.x) \o <<",", " ">> \o IntStr(entry.y) \o <<",", " ">>
    \o IntStr(entry.width) \o <<",", " ">> \o IntStr(entry.height) \o <<")">>

\* IconViewerPresetMetrics.__init__: a new object, the id-th constructed
PresetMetrics(id, ref, entry, width, height) ==
    [kind |-> "handle", id |-> id, entry |-> ref, width |-> width, height |-> height,
     label |-> entry.name, caption |-> Caption(entry),
     tooltip |-> IF entry.tooltip # << >> THEN Some(entry.tooltip) ELSE None]

\* ptyp_Metrics: previous_metrics is not read
ptyp_Metrics(tree, constructed, path, width, height, previous_metrics) ==
    LET found == dcsyn_Lookup(tree, path)
    IN  IF found.kind # "entry" THEN found
        ELSE PresetMetrics(constructed + 1, found.ref, Deref(tree, found.ref),
                           width, height)

(***************************************************************************)
(* IconViewerPresetMetrics.pmet_ThumbnailImage                             *)
(***************************************************************************)
\* resource.Format(): the three formats the code copies, and any other
Formats == {"iIMP_RGBA32", "iIMP_IRGBA32", "iIMP_RGB24", "iIMP_other"}

\* the pixel of the decoded sprite sheet at (x, y): every position holds a
\* pixel of its own
SourcePixel(x, y) == <<x, y>>

\* what a lenient host leaves in the pixel storage when GetPixel is asked
\* for a position outside the image
NoPixel == <<-1, -1>>

Image(w, h, pix) == [kind |-> "image", w |-> w, h |-> h, pix |-> pix]

\* lx.notimpl()
NotImplemented == [kind |-> "throw", code |-> "e_NOTIMPLEMENTED"]

\* the host's own failure for a call it rejects
HostError == [kind |-> "raise", code |-> "host"]

\* the host is not part of the repository: what Create does with a negative
\* size and what GetPixel does outside the image is one of "raise" (the call
\* fails) or "lenient" (the call returns, with no pixel to give)
HostChoices == {"raise", "lenient"}

pmet_ThumbnailImage(entry, sw, sh, fmt, host) ==
    IF ~IsFile(entry.resource) THEN NotImplemented
    ELSE IF (entry.width < 0 \/ entry.height < 0) /\ host = "raise" THEN HostError
    ELSE IF fmt \notin {"iIMP_RGBA32", "iIMP_IRGBA32", "iIMP_RGB24"} THEN NotImplemented
    ELSE IF entry.x + entry.width > sw THEN NotImplemented
    ELSE IF entry.y + entry.height > sh THEN NotImplemented
    ELSE LET cells == (0..(entry.width - 1)) \X (0..(entry.height - 1))
             inside(c) == /\ 0 <= entry.x + c[1] /\ entry.x + c[1] < sw
                          /\ 0 <= entry.y + c[2] /\ entry.y + c[2] < sh
         IN  IF host = "raise" /\ \E c \in cells : ~inside(c)
             THEN HostError
             ELSE Image(entry.width, entry.height,
                        [c \in cells |->
                            IF inside(c)
                            THEN SourcePixel(entry.x + c[1], entry.y + c[2])
                            ELSE NoPixel])

(***************************************************************************)
(* The requests of the host, once __init__ is over.                        *)
(***************************************************************************)
\* the paths the host asks for: the path of every entry, the path of an
\* icon key (in the tree or not), and paths that name nothing
RequestPaths ==
    { Deref(root, r).path : r \in EntryRefs(root) }
    \cup { ICONVIEWERPRESET_SYNTH \o <<":">>,
           ICONVIEWERPRESET_SYNTH \o <<":", "a">>,
           ICONVIEWERPRESET_SYNTH \o <<"x">>,
           ICONVIEWERPRESET_SYNTH \o <<"x", ":", "a">>,
           ICONVIEWERPRESET_SYNTH \o <<":", "z">>,
           ICONVIEWERPRESET_SYNTH \o <<":", "a", "/">>,
           ICONVIEWERPRESET_SYNTH \o <<":", "a", "/", "b">>,
           ICONVIEWERPRESET_SYNTH \o <<":", "a", "/", "a">>,
           <<"o", ":", "a">> }

\* the value of result while no call is in progress
NoResult == [op |-> "none"]

\* __init__ is over.  Line 142 stores the object in _instance before the
\* scan, so get_instance() also returns the object of an __init__ that an
\* exception left, with the root as it was then
Constructed == pc \in {"done", "raised"}

\* no call of the host is in progress: the host is single-threaded and
\* makes one call at a time
Idle == Constructed /\ result = NoResult

Lookup ==
    /\ Idle
    /\ \E path \in RequestPaths :
          result' = [op |-> "lookup", path |-> path,
                     out |-> dcsyn_Lookup(root, path)]
    /\ UNCHANGED <<files, build, handles>>

DirCount ==
    /\ Idle
    /\ \E ref \in EntryRefs(root), list_mode \in ListModes :
          result' = [op |-> "count", ref |-> ref, list_mode |-> list_mode,
                     out |-> dcsyne_DirCount(Deref(root, ref), list_mode)]
    /\ UNCHANGED <<files, build, handles>>

DirByIndex ==
    /\ Idle
    /\ \E ref \in EntryRefs(root), list_mode \in ListModes,
          index \in (0 - MaxIndex)..MaxIndex :
          result' = [op |-> "index", ref |-> ref, list_mode |-> list_mode,
                     index |-> index,
                     out |-> dcsyne_DirByIndex(ref, Deref(root, ref), list_mode, index)]
    /\ UNCHANGED <<files, build, handles>>

\* previous_metrics is null or a handle an earlier call returned
Metrics ==
    /\ Idle
    /\ handles < MaxHandles
    /\ \E path \in RequestPaths, previous \in 0..handles,
          width \in 1..MaxThumb, height \in 1..MaxThumb :
          LET out == ptyp_Metrics(root, handles, path, width, height, previous)
          IN  /\ result' = [op |-> "metrics", path |-> path, previous |-> previous,
                            out |-> out]
              /\ handles' = IF out.kind = "handle" THEN handles + 1 ELSE handles
    /\ UNCHANGED <<files, build>>

ThumbnailImage ==
    /\ Idle
    /\ \E ref \in EntryRefs(root), sw \in (MaxSource - 1)..MaxSource,
          sh \in (MaxSource - 1)..MaxSource, fmt \in Formats, host \in HostChoices :
          result' = [op |-> "thumbnail", ref |-> ref, sw |-> sw, sh |-> sh,
                     fmt |-> fmt,
                     out |-> pmet_ThumbnailImage(Deref(root, ref), sw, sh, fmt, host)]
    /\ UNCHANGED <<files, build, handles>>

\* the call returns (or fails) and the host goes on
Return ==
    /\ Constructed
    /\ result # NoResult
    /\ result' = NoResult
    /\ UNCHANGED <<files, build, handles>>

Init ==
    /\ files \in {l \in Listings(MaxFiles) : l # << >> /\ ValidListing(l)}
    /\ pc = "scan"
    /\ fileIdx = 1
    /\ stage = "open"
    /\ recIdx = 1
    /\ images = << >>
    /\ icons = {}
    /\ todo = {}
    /\ root = RootEntry
    /\ error = ""
    /\ handles = 0
    /\ result = NoResult

\* the steps of IconViewerPBSynthetic.__init__
Build ==
    \/ SkipFile \/ ParseError \/ ParseFile \/ ScanImage \/ FindIcons
    \/ ScanIcon \/ EndFile \/ EndScan \/ IndexIcon \/ EndBuild

\* the calls of the host on the built tree
Requests ==
    \/ Lookup \/ DirCount \/ DirByIndex \/ Metrics \/ ThumbnailImage \/ Return

Next == Build \/ Requests

\* the program: the build at startup, then the requests
Spec == Init /\ [][Next]_vars

\* the startup build alone
BuildSpec == Init /\ [][Build]_vars
(***************************************************************************)
(* Properties.                                                             *)
(***************************************************************************)
\* the first position of list whose name is name (0: none)
FirstMatch(list, name) ==
    IF \E i \in 1..Len(list) : list[i].name = name
    THEN CHOOSE i \in 1..Len(list) :
            /\ list[i].name = name
            /\ \A j \in 1..(i - 1) : list[j].name # name
    ELSE 0

\* C1: for every file entry e of the built tree, whatever its key, the lookup
\* of e.path succeeds and returns the first child of root, in child-list
\* order, whose name is e's key.
C1_LookupOfEntryPath ==
    result.op = "lookup" =>
        \A i \in 1..Len(root.files) :
            result.path = root.files[i].path =>
                result.out =
                    Returned(<<FileRef(FirstMatch(root.files, root.files[i].name))>>)

\* C2: for every path, the lookup either returns an entry of the tree or
\* fails with the not-available signal, and with no other kind of error; a
\* path that does not start with the root marker fails with not-available.
C2_LookupFailsOnlyNotAvailable ==
    result.op = "lookup" =>
        /\ \/ result.out.kind = "entry" /\ result.out.ref \in EntryRefs(root)
           \/ result.out = Thrown("e_NOTAVAILABLE")
        /\ ~StartsWith(result.path, ICONVIEWERPRESET_SYNTH) =>
              result.out = Thrown("e_NOTAVAILABLE")

\* C3: for an entry with bounding box (x, y, w, h) whose sprite sheet decodes
\* to an sw x sh image of a supported format: when x + w <= sw and
\* y + h <= sh the extraction returns a w x h image whose pixel (dx, dy) is
\* the source pixel at (x + dx, y + dy); otherwise it fails with the
\* not-implemented signal and returns no image.
C3_ExactCropOrNotImplemented ==
    result.op = "thumbnail" =>
        LET e == Deref(root, result.ref)
            cells == (0..(e.width - 1)) \X (0..(e.height - 1))
        IN  (IsFile(e.resource) /\ result.fmt # "iIMP_other") =>
                IF e.x + e.width <= result.sw /\ e.y + e.height <= result.sh
                THEN /\ result.out.kind = "image"
                     /\ result.out.w = e.width
                     /\ result.out.h = e.height
                     /\ DOMAIN result.out.pix = cells
                     /\ \A c \in cells :
                           /\ 0 <= e.x + c[1] /\ e.x + c[1] < result.sw
                           /\ 0 <= e.y + c[2] /\ e.y + c[2] < result.sh
                           /\ result.out.pix[c] = SourcePixel(e.x + c[1], e.y + c[2])
                ELSE result.out = NotImplemented

\* C4: the startup build always runs to completion, whatever the scanned
\* config files contain: no defective record makes __init__ end with an
\* exception.
C4_BuildRunsToCompletion == pc # "raised"

\* the entry the claim C5 describes for an icon declaration
DeclaredEntry(icon) ==
    [path |-> ICONVIEWERPRESET_SYNTH \o <<":">> \o icon[1],
     name |-> icon[1], is_file |-> TRUE,
     x |-> icon[3][1], y |-> icon[3][2], width |-> icon[3][3], height |-> icon[3][4],
     resource |-> images[Some(icon[2])], tooltip |-> images[Some(icon[2])],
     files |-> << >>, dirs |-> << >>]

\* the icon declarations whose source key is in the image map
ResolvedIcons == {icon \in icons : Some(icon[2]) \in DOMAIN images}

\* C5: after the build, root's file list holds exactly one file entry for
\* each distinct accepted icon declaration whose source key is in the final
\* image map (name = key, path = marker ":" key, resourcePath = tooltip =
\* the mapped image path, the declared bounding box), and no entry for an
\* icon whose source key is absent from the map, whether the Image record
\* was scanned before or after the Icon record.
C5_TreeHoldsResolvedIcons ==
    pc = "done" =>
        /\ root.dirs = << >>
        /\ Len(root.files) = Cardinality(ResolvedIcons)
        /\ \A icon \in ResolvedIcons :
              Cardinality({i \in 1..Len(root.files) : root.files[i] = DeclaredEntry(icon)})
              = Cardinality({other \in ResolvedIcons :
                                DeclaredEntry(other) = DeclaredEntry(icon)})

\* an Icon of FileE (which declares no Image) is in the tree through an Image
\* that FileD, scanned after it, declares; the Icon with the unknown Source
\* is not
C5_Witness ==
    /\ pc = "done"
    /\ files = <<FileE, FileD>>
    /\ \E i \in 1..Len(root.files) :
          /\ root.files[i].name = <<"f">>
          /\ root.files[i].resource = <<"/", "r", "/", "t">>
    /\ \A i \in 1..Len(root.files) : root.files[i].name # <<"e">>

\* the Icon record the scan is at
IconAt == files[fileIdx].icons[recIdx]

\* C6: for every Icon record with a key, the bounding box recorded is the
\* four integers of its Location, taken literally, whenever a Location is
\* present (also when a Grid is present too), and (col*w, row*h, w, h) from
\* the four integers (col, row, w, h) of its Grid when only a Grid is
\* present; Grid "1 2 16 16" gives (16, 32, 16, 16).
C6_BoundingBoxRecorded ==
    [][ (/\ AtFile /\ stage = "icons" /\ recIdx <= Len(files[fileIdx].icons)
         /\ recIdx' = recIdx + 1
         /\ IconAt.key.some /\ IconAt.key.s # << >>
         /\ IconAt.location.found \/ IconAt.grid.found)
        => \E t \in icons' :
              /\ t[1] = IconAt.key.s
              /\ IconAt.location.found =>
                    t[3] = FourInts(IconAt.location.text.s)
              /\ ~IconAt.location.found =>
                    LET g == FourInts(IconAt.grid.text.s)
                    IN  t[3] = <<g[1] * g[3], g[2] * g[4], g[3], g[4]>>
              /\ (~IconAt.location.found /\ IconAt.grid.text.s = GridText) =>
                    t[3] = <<16, 32, 16, 16>> ]_vars

\* FileB is scanned: its Grid-only Icon and its Icon with both a Location and
\* a Grid are recorded
C6_Witness ==
    /\ \E i \in 1..Len(files) : files[i] = FileB /\ i < fileIdx
    /\ \E t \in icons : t[1] = <<"a">> /\ t[3] = <<16, 32, 16, 16>>
    /\ \E t \in icons : t[1] = <<"b">> /\ t[3] = <<1, 1, 2, 2>>

\* the Image records ScanImage has registered or passed over so far, in scan
\* order, each with the path it resolves to
ScannedOf(i) ==
    LET f == files[i]
        n == IF ~(IsConfigName(f.name) /\ f.wellFormed) THEN 0
             ELSE IF i < fileIdx THEN Len(f.images)
             ELSE IF i > fileIdx \/ stage = "open" THEN 0
             ELSE IF stage = "images" THEN recIdx - 1
             ELSE Len(f.images)
    IN  [j \in 1..n |-> [key |-> f.images[j].key,
                         path |-> ImagePath(f.dir, f.images[j].text.s)]]

RECURSIVE ScannedUpTo(_)
ScannedUpTo(i) == IF i = 0 THEN << >> ELSE ScannedUpTo(i - 1) \o ScannedOf(i)

ScannedImages == ScannedUpTo(Len(files))

\* the last position of a declaration of key in seq that satisfies keep(_)
LastDeclaration(seq, key, keep(_)) ==
    LET S == {j \in 1..Len(seq) : seq[j].key = key /\ keep(seq[j])}
    IN  IF S = {} THEN 0 ELSE CHOOSE j \in S : \A k \in S : k <= j

AnyDeclaration(d) == TRUE
NamesFile(d) == IsFile(d.path)

\* C7 as stated: after the scan, the image map holds, for every key that
\* Image records declare, the path of the last declaration scanned.
C7_LastDeclarationWins ==
    pc \in {"index", "done"} =>
        \A j \in 1..Len(ScannedImages) :
            LET key == ScannedImages[j].key
                last == LastDeclaration(ScannedImages, key, AnyDeclaration)
            IN  /\ key \in DOMAIN images
                /\ images[key] = ScannedImages[last].path

\* C7 amended: at every point of the scan and after it, the image map holds,
\* for every key, the resolved path of the last declaration scanned whose
\* resolved path names an existing file; a later declaration whose path names
\* no file leaves the earlier path in place, and a key with no such
\* declaration is absent from the map.
C7_LastExistingDeclarationWins ==
    /\ \A key \in DOMAIN images :
          \E j \in 1..Len(ScannedImages) : ScannedImages[j].key = key
    /\ \A j \in 1..Len(ScannedImages) :
          LET key == ScannedImages[j].key
              last == LastDeclaration(ScannedImages, key, NamesFile)
          IN  IF last = 0 THEN key \notin DOMAIN images
              ELSE key \in DOMAIN images /\ images[key] = ScannedImages[last].path

\* FileA then FileB, in different files of one directory, both declare the
\* key "m" with a path that names a file: the later path replaced the earlier
C7_Witness ==
    /\ pc \in {"index", "done"}
    /\ Len(files) = 2 /\ files[1] = FileA /\ files[2] = FileB
    /\ Cardinality({j \in 1..Len(ScannedImages) :
                       ScannedImages[j].key = Some(KeyM) /\ NamesFile(ScannedImages[j])}) = 2
    /\ images[Some(KeyM)] = <<"/", "q">>

\* C8: metrics called with a non-null previousMetrics returns that same
\* handle, without constructing a new one.
C8_PreviousMetricsReturned ==
    (result.op = "metrics" /\ result.previous # NullHandle) =>
        /\ result.out.kind = "handle"
        /\ result.out.id = result.previous

\* the children list_mode selects: the directories first, the files after
\* them
Selected(ref, entry, list_mode) ==
    (IF "DIRS" \in list_mode
     THEN [i \in 1..Len(entry.dirs) |-> Append(ref, DirRef(i))] ELSE << >>)
    \o (IF "FILES" \in list_mode
        THEN [i \in 1..Len(entry.files) |-> Append(ref, FileRef(i))] ELSE << >>)

\* C9: childCount is the number of children the mode selects; childAt returns
\* the i-th selected child for 0 <= i < childCount and, for every other
\* index, fails and returns no entry.
C9_ChildCountAndChildAt ==
    /\ result.op = "count" =>
          result.out = Len(Selected(result.ref, Deref(root, result.ref), result.list_mode))
    /\ result.op = "index" =>
          LET sel == Selected(result.ref, Deref(root, result.ref), result.list_mode)
          IN  IF 0 <= result.index /\ result.index < Len(sel)
              THEN result.out = Returned(sel[result.index + 1])
              ELSE result.out.kind # "entry"

\* C10: every entry of the tree has a bounding box with width >= 0 and
\* height >= 0, whatever integers the Location and Grid texts carry.
C10_NonNegativeSize ==
    \A ref \in EntryRefs(root) :
        Deref(root, ref).width >= 0 /\ Deref(root, ref).height >= 0

=============================================================================
